---- MODULE Spec2Model ----
(***************************************************************************)
(* FlareEngine: the event bus (Dispatcher), the time-merge scheduler       *)
(* (DataManager.get_next_bars) and the portfolio accounting driven by the  *)
(* order -> pending -> fill lifecycle.                                     *)
(*                                                                         *)
(* Strings that the code builds with '_' (stream keys, topics) are         *)
(* sequences of '_'-free tokens: "new_bar_A_1h" is <<"new","bar","A","1h">>*)
(* so that f"{symbol}_{timeframe}" is concatenation and split('_')[0] is   *)
(* the first token.  Python dicts are ordered dicts: sequences of          *)
(* [k, v] records in insertion order.  None is the string "None".          *)
(*                                                                         *)
(* Event construction: BarEvent/OrderEvent/FillEvent.__init__ call         *)
(* super.__init__(self), which does not run Event.__init__ on the new      *)
(* instance, so the id property of every event reads the class attribute   *)
(* Event._id, which nothing increments.                                    *)
(***************************************************************************)
EXTENDS Integers, Sequences, FiniteSets, TLC

\* ------------------------------------------------------------------ bounds
MaxBars == 2
MaxTime == 3
MaxOrders == 2
MaxExtraCalls == 2
MaxFills == 2
MaxCalls == 2
MaxEvents == 2
MaxConstructions == 3
MaxRepoCalls == 3
MaxMABars == 5
\* the windows of the moving-average strategy in the runs (50 and 200 in the code)
ShortWindow == 1
LongWindow == 2

\* ------------------------------------------------------- program constants
InitialBalance == 100000
Event_id == 0
CallbackArgs == 2
RiskManagerParams == 1

None == "None"
\* an optional number (price, commission): <<>> is None, <<x>> is the number x
NoNumber == <<>>
Number(x) == <<x>>

VARIABLES
  stream_list,      \* the list of BacktestDataStream passed to DataManager: [symbol, timeframe, type, bars]
  bar_index,        \* BacktestDataStream._bar_index, per stream of stream_list
  data_streams,     \* DataManager._data_streams: ordered dict symbol -> index in stream_list
  bars,             \* DataManager._bars: ordered dict key -> Bar (the one-bar slot of each stream)
  data,             \* SharedRepository.data: function key -> value
  subscribers,      \* Dispatcher.subscribers: function topic -> sequence of callbacks
  message_queue,    \* Dispatcher.message_queue: FIFO of [event_type, sender, data] (+ history fields seq, cause)
  worker,           \* position of the worker thread in _process_queue
  balance,          \* Portfolio._balance
  available_balance,\* Portfolio._available_balance
  equity,           \* Portfolio._equity
  last_prices,      \* Portfolio._last_prices: function symbol -> Bar
  positions,        \* Portfolio._positions: function symbol -> signed quantity
  pending_orders,   \* Portfolio._pending_orders
  returns,          \* history: the values returned by the calls of get_next_bars, in order
  published,        \* history: [key, bar] of every BarEvent published by get_next_bars, in order
  delivered,        \* history: [seq, callback, exc] of every callback invocation, in order
  npub,             \* history: number of publish calls so far (publication sequence numbers)
  constructed,      \* history: [type, id, order_ref] of every event constructed, in order
  orders_sent,      \* the orders the calling code has published on risk_manager_order
  calls,            \* history: [op, ..., result] of every direct call of a tested function, in order
  data_buffer,      \* MovingAverageStrategy.data_buffer: the closes kept, oldest first
  position,         \* MovingAverageStrategy.position
  callers,          \* the threads that call Dispatcher(): per thread, its place in the call
  singleton,        \* Dispatcher._instance (number of objects created) and its _running attribute
  worker2           \* position of the worker thread a second run of the body of __init__ starts

dmVars == <<stream_list, bar_index, data_streams, bars>>
busVars == <<subscribers, message_queue, worker>>
pfVars == <<balance, available_balance, equity, last_prices, positions, pending_orders>>
histVars == <<returns, published, delivered, npub, constructed>>
maVars == <<data_buffer, position>>
ctorVars == <<callers, singleton, worker2>>
otherVars == <<calls, maVars, ctorVars>>
vars == <<stream_list, bar_index, data_streams, bars, data, subscribers, message_queue,
          worker, balance, available_balance, equity, last_prices, positions,
          pending_orders, returns, published, delivered, npub, constructed, orders_sent,
          calls, data_buffer, position, callers, singleton, worker2>>

\* ------------------------------------------------------- ordered dicts
DictKeys(d) == {d[i].k : i \in DOMAIN d}
DictHas(d, key) == \E i \in DOMAIN d : d[i].k = key
DictGet(d, key) == d[CHOOSE i \in DOMAIN d : d[i].k = key].v
\* d[key] = v: a present key keeps its place, a new key goes last
DictSet(d, key, v) ==
  IF DictHas(d, key)
  THEN [i \in DOMAIN d |-> IF d[i].k = key THEN [k |-> key, v |-> v] ELSE d[i]]
  ELSE Append(d, [k |-> key, v |-> v])
\* del d[key]
DictDel(d, key) == SelectSeq(d, LAMBDA e : e.k # key)

\* functions with a growing domain (dicts whose order is never observed)
FnSet(f, key, v) == [x \in DOMAIN f \cup {key} |-> IF x = key THEN v ELSE f[x]]
EmptyFn == [x \in {} |-> 0]

\* ------------------------------------------------------------ events
\* Event.id: the constructors do not run Event.__init__, the property reads Event._id
NewEventId == Event_id

BarEvent(bar, symbol) == [type |-> "BAR", bar |-> bar, symbol |-> symbol, id |-> NewEventId]

OrderEvent(symbol, order_type, quantity, direction, price) ==
  [type |-> "ORDER", symbol |-> symbol, order_type |-> order_type, quantity |-> quantity,
   direction |-> direction, price |-> price, id |-> NewEventId]

\* commission or 0.0
FillEvent(symbol, quantity, direction, fill_price, commission, order_ref) ==
  [type |-> "FILL", symbol |-> symbol, quantity |-> quantity, direction |-> direction,
   fill_price |-> fill_price, commission |-> IF commission = NoNumber THEN 0 ELSE commission[1],
   order_ref |-> order_ref, id |-> NewEventId]

\* history: the constructor of event e has run (order_ref is <<>> for an event
\* that has none)
Constructed(e) ==
  constructed' = Append(constructed,
                        [type |-> e.type, id |-> e.id,
                         order_ref |-> IF e.type = "FILL" THEN <<e.order_ref>> ELSE <<>>])

\* ------------------------------------------------------------ dispatcher
\* a LIFO queue: the item goes to the head
put_front(q, item) == <<item>> \o q
\* a queue serving the newest item first
get_newest(q) == [item |-> q[Len(q)], rest |-> SubSeq(q, 1, Len(q) - 1)]

\* queue.Queue.put: the item goes to the tail
put(q, item) == Append(q, item)
\* a get that leaves the item in the queue
peek(q) == [item |-> Head(q), rest |-> q]
\* queue.Queue.get: the item at the head, and the queue without it
get(q) == [item |-> Head(q), rest |-> Tail(q)]

\* one queued item (event_type, sender, data); the other fields are history:
\* seq is its publication number, parent the seq of the item that was being
\* delivered by the callback that published it (0: published by the main thread),
\* cause the seq of the BarEvent whose delivery led to it (0: none)
Message(event_type, sender, payload, seq, parent, cause) ==
  [event_type |-> event_type, sender |-> sender, data |-> payload,
   seq |-> seq, parent |-> parent, cause |-> cause]

\* a subscribe that keeps one registration per callback
subscribe_once(subs, event_type, callback) ==
  IF event_type \in DOMAIN subs /\ \E i \in DOMAIN subs[event_type] : subs[event_type][i] = callback
  THEN subs
  ELSE FnSet(subs, event_type,
             IF event_type \in DOMAIN subs THEN Append(subs[event_type], callback) ELSE <<callback>>)

\* a subscribe that is lost while the worker is delivering an item
subscribe_unless_busy(subs, event_type, callback) ==
  IF worker.pc = "call" THEN subs
  ELSE FnSet(subs, event_type,
             IF event_type \in DOMAIN subs THEN Append(subs[event_type], callback) ELSE <<callback>>)

\* Dispatcher.subscribe
subscribe(subs, event_type, callback) ==
  FnSet(subs, event_type,
        IF event_type \in DOMAIN subs THEN Append(subs[event_type], callback) ELSE <<callback>>)

\* a snapshot that falls back on every registered callback for an unknown topic
RECURSIVE AllCallbacks(_, _)
AllCallbacks(subs, topics) ==
  IF topics = {} THEN <<>>
  ELSE LET t == CHOOSE x \in topics : TRUE IN subs[t] \o AllCallbacks(subs, topics \ {t})
snapshot_any(subs, event_type) ==
  IF event_type \in DOMAIN subs THEN subs[event_type] ELSE AllCallbacks(subs, DOMAIN subs)

\* the snapshot taken for one dequeued item
snapshot(subs, event_type) ==
  IF event_type \in DOMAIN subs THEN subs[event_type] ELSE <<>>

\* a worker thread: pc "new" before start(), "get" at message_queue.get(), "call" in the
\* loop over the copy of the topic's callbacks (copy: the list copied, callbacks: the
\* part of it not yet invoked)
NotStarted == [pc |-> "new", entry |-> None, callbacks |-> <<>>, copy |-> <<>>]
Idle == [pc |-> "get", entry |-> None, callbacks |-> <<>>, copy |-> <<>>]

\* the threads that may call Dispatcher()
Threads == {"T1", "T2"}
\* the process after one Dispatcher() by the main thread: one object, its worker started
Constructed1 ==
  /\ callers = [t \in Threads |-> [pc |-> "ready", done |-> IF t = "T1" THEN 1 ELSE 0,
                                    npub |-> 0]]
  /\ singleton = [instance |-> 1, running |-> TRUE]
  /\ worker2 = NotStarted

\* no direct call made, no MovingAverageStrategy, the Dispatcher constructed once
InitOthers ==
  /\ calls = <<>>
  /\ data_buffer = <<>>
  /\ position = 0
  /\ Constructed1

\* message_queue.get() and the copy of the topic's subscriber list
WorkerGet ==
  /\ worker.pc = "get"
  /\ message_queue # <<>>
  /\ worker' = [pc |-> "call", entry |-> get(message_queue).item,
                callbacks |-> snapshot(subscribers, get(message_queue).item.event_type),
                copy |-> snapshot(subscribers, get(message_queue).item.event_type)]
  /\ message_queue' = get(message_queue).rest
  /\ UNCHANGED <<dmVars, otherVars, data, subscribers, pfVars, histVars, orders_sent>>

\* the callbacks of the snapshot are exhausted (or the topic is unknown): task_done
WorkerTaskDone ==
  /\ worker.pc = "call"
  /\ worker.callbacks = <<>>
  /\ worker' = Idle
  /\ UNCHANGED <<dmVars, otherVars, data, subscribers, message_queue, pfVars, histVars, orders_sent>>

\* the worker is about to invoke callback cb with (sender, data)
Calling(cb) ==
  /\ worker.pc = "call"
  /\ worker.callbacks # <<>>
  /\ Head(worker.callbacks) = cb

\* an invocation whose exception ends the worker thread
CalledOrDie(cb, exc) ==
  /\ worker' = IF exc = None THEN [worker EXCEPT !.callbacks = Tail(@)]
                ELSE [worker EXCEPT !.pc = "dead"]
  /\ delivered' = Append(delivered, [seq |-> worker.entry.seq, callback |-> cb, exc |-> exc])

\* the invocation returned (exc = None) or raised exc, which the worker logs and swallows
Called(cb, exc) ==
  /\ worker' = [worker EXCEPT !.callbacks = Tail(@)]
  /\ delivered' = Append(delivered, [seq |-> worker.entry.seq, callback |-> cb, exc |-> exc])

\* ------------------------------------------------------------ data streams
StreamKey(symbol, timeframe) == symbol \o <<timeframe>>
StreamTopic(symbol, timeframe) == <<"symbol">> \o symbol \o <<timeframe>>
BarTopic(key) == <<"new", "bar">> \o key
NewDataStreamTopic == <<"new", "data", "stream">>

\* DataManager.__init__: _data_streams[data_streams[i].symbol] = data_streams[i]
RECURSIVE RegisterStreams(_, _, _)
RegisterStreams(sl, i, d) ==
  IF i > Len(sl) THEN d ELSE RegisterStreams(sl, i + 1, DictSet(d, sl[i].symbol, i))

\* the first loop of get_next_bars: every stream whose slot is empty pulls one bar
\* (BacktestDataStream.get_next_bar: the bar at _bar_index, or None past the end)
RECURSIVE Refill(_, _, _)
Refill(j, b, bi) ==
  IF j > Len(data_streams) THEN [bars |-> b, bar_index |-> bi]
  ELSE LET s == data_streams[j].v
           stream == stream_list[s]
           key == StreamKey(data_streams[j].k, stream.timeframe)
       IN IF ~DictHas(b, key) /\ stream.type = "backtest" /\ bi[s] < Len(stream.bars)
          THEN Refill(j + 1, DictSet(b, key, stream.bars[bi[s] + 1]), [bi EXCEPT ![s] = @ + 1])
          ELSE Refill(j + 1, b, bi)

\* the comparison turned around: the latest bar wins
Greater(timestamp, nearest_time) ==
  IF nearest_time = <<>> THEN TRUE ELSE timestamp > nearest_time[1]

\* bar.timestamp < nearest_time; nearest_time is <<>> for float('inf'), <<t>> for t
Less(timestamp, nearest_time) ==
  IF nearest_time = <<>> THEN TRUE ELSE timestamp < nearest_time[1]

\* the second loop of get_next_bars, over _bars in dict order
RECURSIVE NearestKey(_, _, _, _)
NearestKey(b, i, nearest_key, nearest_time) ==
  IF i > Len(b) THEN nearest_key
  ELSE IF Less(b[i].v.timestamp, nearest_time)
       THEN NearestKey(b, i + 1, b[i].k, <<b[i].v.timestamp>>)
       ELSE NearestKey(b, i + 1, nearest_key, nearest_time)

\* history: the keys of the occupied slots whose bar has the smallest timestamp,
\* in the order their streams were registered with the DataManager
TiedInRegistrationOrder(b) ==
  LET keys == [j \in 1..Len(data_streams) |->
                 StreamKey(data_streams[j].k, stream_list[data_streams[j].v].timeframe)]
      smallest(k) == /\ DictHas(b, k)
                     /\ \A i \in DOMAIN b : DictGet(b, k).timestamp <= b[i].v.timestamp
  IN SelectSeq(keys, smallest)

\* the slot is left occupied
KeepSlot(b, key) == b

\* del self._bars[nearest_key]
EmptySlot(b, key) == DictDel(b, key)

TotalBars == LET RECURSIVE Sum(_)
                 Sum(i) == IF i = 0 THEN 0 ELSE Len(stream_list[i].bars) + Sum(i - 1)
             IN Sum(Len(stream_list))

SharedLastPrices == IF "last_prices" \in DOMAIN data THEN data["last_prices"] ELSE EmptyFn

\* DataManager.get_next_bars, called from the main thread
Advance ==
  /\ Len(returns) < TotalBars + MaxExtraCalls
  /\ LET r == Refill(1, bars, bar_index)
         nearest_key == NearestKey(r.bars, 1, <<>>, <<>>)
     IN /\ bar_index' = r.bar_index
        /\ IF r.bars = <<>> \/ nearest_key = <<>>
           THEN /\ bars' = r.bars
                /\ returns' = Append(returns, FALSE)
                /\ UNCHANGED <<data, message_queue, published, npub, constructed>>
           ELSE LET bar_to_publish == DictGet(r.bars, nearest_key)
                    symbol == <<Head(nearest_key)>>
                IN /\ data' = FnSet(data, "last_prices",
                                    FnSet(SharedLastPrices, symbol, bar_to_publish))
                   /\ message_queue' = put(message_queue,
                         Message(BarTopic(nearest_key), "DataManager",
                                 BarEvent(bar_to_publish, symbol), npub + 1, 0, npub + 1))
                   /\ Constructed(BarEvent(bar_to_publish, symbol))
                   /\ npub' = npub + 1
                   /\ bars' = EmptySlot(r.bars, nearest_key)
                   /\ published' = Append(published,
                         [key |-> nearest_key, bar |-> bar_to_publish,
                          tied |-> TiedInRegistrationOrder(r.bars), seq |-> npub + 1])
                   /\ returns' = Append(returns, TRUE)
  /\ UNCHANGED <<stream_list, data_streams, subscribers, worker, pfVars, delivered, orders_sent,
                 otherVars>>

\* TestDataManager.on_new_bar: a listener that only records the bar
CallTestOnNewBar ==
  /\ Calling("TestDataManager.on_new_bar")
  /\ Called("TestDataManager.on_new_bar", None)
  /\ UNCHANGED <<dmVars, otherVars, data, subscribers, message_queue, pfVars, returns, published, npub,
                 constructed, orders_sent>>

\* ------------------------------------------------------------ streams of the runs
Timestamps == 1..MaxTime
Closes == {50000}
Bar(timestamp, close) == [timestamp |-> timestamp, close |-> close]

\* the finite bar sequences a CSV in ascending Datetime order yields
AscendingBars ==
  {bs \in UNION {[1..n -> {Bar(t, c) : t \in Timestamps, c \in Closes}] : n \in 0..MaxBars} :
     \A i \in 1..(Len(bs) - 1) : bs[i].timestamp <= bs[i + 1].timestamp}

BacktestDataStream(symbol, timeframe, bs) ==
  [symbol |-> symbol, timeframe |-> timeframe, type |-> "backtest", bars |-> bs]

\* DataStream.__init__ of every stream of sl, in order: the data_streams list of the
\* shared store and the new_data_stream publications
StreamTopics(sl) == [i \in 1..Len(sl) |-> StreamTopic(sl[i].symbol, sl[i].timeframe)]
StreamAnnouncements(sl) ==
  [i \in 1..Len(sl) |->
     Message(NewDataStreamTopic, "BacktestDataStream", StreamTopics(sl)[i], i, 0, 0)]

\* Portfolio.__init__ field values
InitPortfolio ==
  /\ balance = InitialBalance
  /\ available_balance = InitialBalance
  /\ equity = InitialBalance
  /\ last_prices = EmptyFn
  /\ positions = EmptyFn
  /\ pending_orders = <<>>

\* TestDataManager.setUp with two streams: streams, DataManager, one bar listener per stream
InitMerge ==
  /\ stream_list \in {<<BacktestDataStream(<<"A">>, "1h", a), BacktestDataStream(<<"B">>, "1d", b)>> :
                        a \in AscendingBars, b \in AscendingBars}
  /\ bar_index = [i \in 1..Len(stream_list) |-> 0]
  /\ data_streams = RegisterStreams(stream_list, 1, <<>>)
  /\ bars = <<>>
  /\ data = FnSet(EmptyFn, "data_streams", StreamTopics(stream_list))
  /\ subscribers =
       subscribe(subscribe(EmptyFn, BarTopic(StreamKey(<<"A">>, "1h")), "TestDataManager.on_new_bar"),
                 BarTopic(StreamKey(<<"B">>, "1d")), "TestDataManager.on_new_bar")
  /\ message_queue = StreamAnnouncements(stream_list)
  /\ worker = Idle
  /\ InitPortfolio
  /\ returns = <<>>
  /\ published = <<>>
  /\ delivered = <<>>
  /\ npub = Len(stream_list)
  /\ constructed = <<>>
  /\ orders_sent = {}
  /\ InitOthers

NextMerge == Advance \/ WorkerGet \/ CallTestOnNewBar \/ WorkerTaskDone

SpecMerge == InitMerge /\ [][NextMerge]_vars

\* ------------------------------------------------------------ topics of the pipeline
StrategyOrderTopic == <<"strategy", "order">>
RiskManagerOrderTopic == <<"risk", "manager", "order">>
OrderManagerOrderTopic == <<"order", "manager", "order">>
BrokerFillTopic == <<"broker", "interface", "fill">>

\* a publish that alters the quantity of the event it was given
PublishAltered(event_type, sender, payload) ==
  /\ message_queue' = put(message_queue,
                          Message(event_type, sender, [payload EXCEPT !.quantity = @ + 1],
                                  npub + 1, worker.entry.seq, worker.entry.cause))
  /\ npub' = npub + 1

\* dispatcher.publish from inside a callback: the item inherits the cause of the
\* item being delivered
PublishFromCallback(event_type, sender, payload) ==
  /\ message_queue' = put(message_queue,
                          Message(event_type, sender, payload, npub + 1, worker.entry.seq,
                                  worker.entry.cause))
  /\ npub' = npub + 1

\* ------------------------------------------------------------ strategy
StrategySignals == {None, "BUY"}

\* a Strategy subclass: on_new_bar may call _emit_order with one MARKET order of
\* quantity 1 for the bar's symbol (the shape of the reference strategy's orders)
CallStrategy ==
  /\ Calling("Strategy.on_new_bar")
  /\ Called("Strategy.on_new_bar", None)
  /\ \E signal \in StrategySignals :
       IF signal = None
       THEN UNCHANGED <<message_queue, npub, constructed>>
       ELSE LET order == OrderEvent(worker.entry.data.symbol, "MARKET", 1, signal, NoNumber)
            IN /\ Constructed(order)
               /\ PublishFromCallback(StrategyOrderTopic, "Strategy", order)
  /\ UNCHANGED <<dmVars, otherVars, data, subscribers, pfVars, returns, published, orders_sent>>

\* ------------------------------------------------------------ risk manager
\* _on_strategy_order(self, order_event) is invoked as callback(sender, data)
CallRiskManager ==
  /\ Calling("RiskManager._on_strategy_order")
  /\ IF CallbackArgs = RiskManagerParams
     THEN /\ Called("RiskManager._on_strategy_order", None)
          /\ PublishFromCallback(RiskManagerOrderTopic, "RiskManager", worker.entry.data)
     ELSE /\ Called("RiskManager._on_strategy_order", "TypeError")
          /\ UNCHANGED <<message_queue, npub>>
  /\ UNCHANGED <<dmVars, otherVars, data, subscribers, pfVars, returns, published, constructed, orders_sent>>

\* ------------------------------------------------------------ order manager
CallOrderManager ==
  /\ Calling("OrderManager._on_risk_manager_order")
  /\ Called("OrderManager._on_risk_manager_order", None)
  /\ PublishFromCallback(OrderManagerOrderTopic, "OrderManager", worker.entry.data)
  /\ UNCHANGED <<dmVars, otherVars, data, subscribers, pfVars, returns, published, constructed, orders_sent>>

\* ------------------------------------------------------------ broker
\* order_event.price if order_event.type != 'MARKET'
\*   else self._repo.get("last_prices")[order_event.symbol].close
\* [ok |-> FALSE] when the lookup raises (caught and logged inside _fill)
BrokerFillPrice(order_event, repo) ==
  IF order_event.type # "MARKET"
  THEN [ok |-> TRUE, price |-> order_event.price]
  ELSE IF "last_prices" \in DOMAIN repo /\ order_event.symbol \in DOMAIN repo["last_prices"]
       THEN [ok |-> TRUE, price |-> Number(repo["last_prices"][order_event.symbol].close)]
       ELSE [ok |-> FALSE, price |-> NoNumber]

CallBroker ==
  /\ Calling("BrokerInterfaceMock._on_order_manager_order")
  /\ Called("BrokerInterfaceMock._on_order_manager_order", None)
  /\ LET o == worker.entry.data
         fp == BrokerFillPrice(o, data)
         fill_event == FillEvent(o.symbol, o.quantity, o.direction, fp.price, Number(0), o.id)
     IN IF fp.ok
        THEN /\ Constructed(fill_event)
             /\ PublishFromCallback(BrokerFillTopic, "BrokerInterfaceMock", fill_event)
        ELSE UNCHANGED <<message_queue, npub, constructed>>
  /\ UNCHANGED <<dmVars, otherVars, data, subscribers, pfVars, returns, published, orders_sent>>

\* ------------------------------------------------------------ portfolio
\* Portfolio._update_available_balance over the pending orders from index i on:
\* [value, exc]; quantity * None raises TypeError and leaves the partial value
RECURSIVE AvailableFrom(_, _, _, _)
AvailableFrom(po, i, value, lp) ==
  IF i > Len(po) THEN [value |-> value, exc |-> None]
  ELSE LET order == po[i] IN
       IF order.order_type = "MARKET"
       THEN IF order.symbol \in DOMAIN lp
            THEN AvailableFrom(po, i + 1, value - order.quantity * lp[order.symbol].close, lp)
            ELSE AvailableFrom(po, i + 1, value, lp)
       ELSE IF order.price = NoNumber
            THEN [value |-> value, exc |-> "TypeError"]
            ELSE AvailableFrom(po, i + 1, value - order.quantity * order.price[1], lp)

UpdateAvailableBalance(po, bal, lp) == AvailableFrom(po, 1, bal, lp)

\* Portfolio._update_equity
UpdateEquity(bal, pos, lp) ==
  LET held == DOMAIN pos \cap DOMAIN lp
      RECURSIVE Sum(_)
      Sum(S) == IF S = {} THEN 0
                ELSE LET x == CHOOSE y \in S : TRUE
                     IN pos[x] * lp[x].close + Sum(S \ {x})
  IN bal + Sum(held)

\* the quantity is added whatever the side
AddWhateverSide(pos, fill_event) ==
  FnSet(pos, fill_event.symbol,
        IF fill_event.symbol \in DOMAIN pos
        THEN pos[fill_event.symbol] + fill_event.quantity ELSE fill_event.quantity)

\* Portfolio._update_positions
UpdatePositions(pos, fill_event) ==
  IF fill_event.direction = "BUY"
  THEN FnSet(pos, fill_event.symbol,
             IF fill_event.symbol \in DOMAIN pos
             THEN pos[fill_event.symbol] + fill_event.quantity ELSE fill_event.quantity)
  ELSE FnSet(pos, fill_event.symbol,
             IF fill_event.symbol \in DOMAIN pos
             THEN pos[fill_event.symbol] - fill_event.quantity ELSE 0 - fill_event.quantity)

\* the commission is not charged
WithoutCommission(bal, fill_event) ==
  IF fill_event.direction = "BUY"
  THEN bal - fill_event.quantity * fill_event.fill_price[1]
  ELSE bal + fill_event.quantity * fill_event.fill_price[1]

\* Portfolio._update_balance up to the check: the new balance (fill_price is a number)
UpdateBalance(bal, fill_event) ==
  (IF fill_event.direction = "BUY"
   THEN bal - fill_event.quantity * fill_event.fill_price[1]
   ELSE bal + fill_event.quantity * fill_event.fill_price[1]) - fill_event.commission

\* the oldest pending order goes too
RemoveOldestToo(po, order_ref) ==
  LET kept == SelectSeq(po, LAMBDA x : x.id # order_ref)
  IN IF kept = <<>> THEN kept ELSE Tail(kept)

\* [x for x in self._pending_orders if x.id != fill_event.order_ref]
RemoveFilled(po, order_ref) == SelectSeq(po, LAMBDA x : x.id # order_ref)

\* Portfolio._on_order_manager_order
CallPortfolioOrder ==
  /\ Calling("Portfolio._on_order_manager_order")
  /\ LET po == Append(pending_orders, worker.entry.data)
         a == UpdateAvailableBalance(po, balance, last_prices)
     IN /\ pending_orders' = po
        /\ available_balance' = a.value
        /\ data' = IF a.exc = None THEN FnSet(data, "available_balance", a.value) ELSE data
        /\ Called("Portfolio._on_order_manager_order", a.exc)
  /\ UNCHANGED <<dmVars, otherVars, subscribers, message_queue, balance, equity, last_prices, positions,
                 returns, published, npub, constructed, orders_sent>>

\* Portfolio._on_broker_interface_fill: the statements run in order until one raises
CallPortfolioFill ==
  /\ Calling("Portfolio._on_broker_interface_fill")
  /\ LET f == worker.entry.data
         po == RemoveFilled(pending_orders, f.order_ref)
         pos == UpdatePositions(positions, f)
     IN /\ pending_orders' = po
        /\ positions' = pos
        /\ IF f.fill_price = NoNumber
           THEN /\ Called("Portfolio._on_broker_interface_fill", "TypeError")
                /\ UNCHANGED <<balance, available_balance, equity, data>>
           ELSE LET bal == UpdateBalance(balance, f)
                    a == UpdateAvailableBalance(po, bal, last_prices)
                IN /\ balance' = bal
                   /\ IF bal < 0
                      THEN /\ Called("Portfolio._on_broker_interface_fill", "AssertionError")
                           /\ UNCHANGED <<available_balance, equity, data>>
                      ELSE /\ available_balance' = a.value
                           /\ IF a.exc = None
                              THEN /\ data' = FnSet(data, "available_balance", a.value)
                                   /\ equity' = UpdateEquity(bal, pos, last_prices)
                              ELSE UNCHANGED <<data, equity>>
                           /\ Called("Portfolio._on_broker_interface_fill", a.exc)
  /\ UNCHANGED <<dmVars, otherVars, subscribers, message_queue, last_prices, returns, published, npub,
                 constructed, orders_sent>>

\* Portfolio._on_new_data_stream
CallPortfolioNewDataStream ==
  /\ Calling("Portfolio._on_new_data_stream")
  /\ Called("Portfolio._on_new_data_stream", None)
  /\ subscribers' = subscribe(subscribers, worker.entry.data, "Portfolio._on_new_bar")
  /\ UNCHANGED <<dmVars, otherVars, data, message_queue, pfVars, returns, published, npub, constructed,
                 orders_sent>>

\* ------------------------------------------------------------ the driver
\* the orders the calling code publishes, each at most once: a MARKET order (no
\* price) and two priced LIMIT orders, one of which costs more than the initial balance
Orders ==
  {OrderEvent(<<"B">>, "MARKET", 1, "BUY", NoNumber),
   OrderEvent(<<"A">>, "LIMIT", 2, "BUY", Number(60000)),
   OrderEvent(<<"A">>, "LIMIT", 1, "SELL", Number(60000))}

\* the calling code publishes an order as if it came from the risk manager
\* (dispatcher.publish("risk_manager_order", self, test_order))
PublishOrder ==
  /\ Cardinality(orders_sent) < MaxOrders
  /\ \E o \in Orders \ orders_sent :
       /\ orders_sent' = orders_sent \cup {o}
       /\ Constructed(o)
       /\ message_queue' = put(message_queue,
                               Message(RiskManagerOrderTopic, "Test", o, npub + 1, 0, 0))
  /\ npub' = npub + 1
  /\ UNCHANGED <<dmVars, otherVars, data, subscribers, worker, pfVars, returns, published, delivered>>

\* the main loop: while data_manager.get_next_bars(): pass
MainLoopAdvance ==
  /\ \A i \in DOMAIN returns : returns[i]
  /\ Advance

\* ------------------------------------------------------------ the engine
ScenarioStreams ==
  <<BacktestDataStream(<<"A">>, "1h", <<Bar(1, 50000)>>),
    BacktestDataStream(<<"B">>, "1d", <<Bar(2, 40000)>>)>>

\* subscribe calls of the constructors, in construction order
RECURSIVE SubscribeAll(_, _, _)
SubscribeAll(subs, pairs, i) ==
  IF i > Len(pairs) THEN subs
  ELSE SubscribeAll(subscribe(subs, pairs[i][1], pairs[i][2]), pairs, i + 1)

\* Portfolio._data_streams_subscription then the three subscriptions of Portfolio.__init__
PortfolioSubscriptions(topics) ==
  [i \in 1..Len(topics) |-> <<topics[i], "Portfolio._on_new_bar">>]
  \o << <<NewDataStreamTopic, "Portfolio._on_new_data_stream">>,
        <<OrderManagerOrderTopic, "Portfolio._on_order_manager_order">>,
        <<BrokerFillTopic, "Portfolio._on_broker_interface_fill">> >>

\* Strategy.__init__ of one strategy per stream
StrategySubscriptions(sl) ==
  [i \in 1..Len(sl) |->
     <<BarTopic(StreamKey(sl[i].symbol, sl[i].timeframe)), "Strategy.on_new_bar">>]

\* the state after constructing, in this order: the streams, the DataManager, the
\* Portfolio, the RiskManager, the OrderManager, the broker, one strategy per stream
Init ==
  /\ stream_list = ScenarioStreams
  /\ bar_index = [i \in 1..Len(stream_list) |-> 0]
  /\ data_streams = RegisterStreams(stream_list, 1, <<>>)
  /\ bars = <<>>
  /\ data = FnSet(FnSet(EmptyFn, "data_streams", StreamTopics(stream_list)),
                  "available_balance", InitialBalance)
  /\ subscribers =
       SubscribeAll(EmptyFn,
                    PortfolioSubscriptions(StreamTopics(stream_list))
                    \o << <<StrategyOrderTopic, "RiskManager._on_strategy_order">>,
                          <<RiskManagerOrderTopic, "OrderManager._on_risk_manager_order">>,
                          <<OrderManagerOrderTopic, "BrokerInterfaceMock._on_order_manager_order">> >>
                    \o StrategySubscriptions(stream_list), 1)
  /\ message_queue = StreamAnnouncements(stream_list)
  /\ worker = Idle
  /\ InitPortfolio
  /\ returns = <<>>
  /\ published = <<>>
  /\ delivered = <<>>
  /\ npub = Len(stream_list)
  /\ constructed = <<>>
  /\ orders_sent = {}
  /\ InitOthers

Next ==
  \/ MainLoopAdvance
  \/ PublishOrder
  \/ WorkerGet
  \/ WorkerTaskDone
  \/ CallStrategy
  \/ CallRiskManager
  \/ CallOrderManager
  \/ CallBroker
  \/ CallPortfolioOrder
  \/ CallPortfolioFill
  \/ CallPortfolioNewDataStream

Spec == Init /\ [][Next]_vars

\* ------------------------------------------------------------ the portfolio alone
\* TestPortfolio: a Portfolio with no streams, whose _last_prices the test sets,
\* driven with orders whose id the test sets and with fills the test constructs;
\* the events reach the portfolio through the bus
Sides == {"BUY", "SELL"}
TestLastPrices == [symbol \in {<<"A">>, <<"B">>} |->
                     IF symbol = <<"A">> THEN Bar(1, 50000) ELSE Bar(1, 40000)]

\* order._id = i after construction
SetId(order, i) == [order EXCEPT !.id = i]

TestOrders ==
  {SetId(OrderEvent(<<"A">>, "LIMIT", 1, "BUY", Number(60000)), 1),
   SetId(OrderEvent(<<"B">>, "MARKET", 1, "SELL", NoNumber), 2)}

TestFills ==
  {FillEvent(symbol, 1, direction, Number(60000), commission, order_ref) :
     symbol \in {<<"A">>, <<"B">>}, direction \in Sides,
     commission \in {NoNumber, Number(5)}, order_ref \in {1, 3}}

InitPortfolioTest ==
  /\ stream_list = <<>>
  /\ bar_index = <<>>
  /\ data_streams = <<>>
  /\ bars = <<>>
  /\ data = FnSet(EmptyFn, "available_balance", InitialBalance)
  /\ subscribers = SubscribeAll(EmptyFn, PortfolioSubscriptions(<<>>), 1)
  /\ message_queue = <<>>
  /\ worker = Idle
  /\ balance = InitialBalance
  /\ available_balance = InitialBalance
  /\ equity = InitialBalance
  /\ last_prices = TestLastPrices
  /\ positions = EmptyFn
  /\ pending_orders = <<>>
  /\ returns = <<>>
  /\ published = <<>>
  /\ delivered = <<>>
  /\ npub = 0
  /\ constructed = <<>>
  /\ orders_sent = {}
  /\ InitOthers

\* the test publishes an order as if it came from the order manager
TestPublishOrder ==
  /\ Cardinality(orders_sent) < MaxOrders
  /\ \E o \in TestOrders \ orders_sent :
       /\ orders_sent' = orders_sent \cup {o}
       /\ Constructed(OrderEvent(o.symbol, o.order_type, o.quantity, o.direction, o.price))
       /\ message_queue' = put(message_queue,
                               Message(OrderManagerOrderTopic, "Test", o, npub + 1, 0, 0))
  /\ npub' = npub + 1
  /\ UNCHANGED <<dmVars, otherVars, data, subscribers, worker, pfVars, returns, published, delivered>>

\* the test publishes a fill as if it came from the broker
TestPublishFill ==
  /\ npub - Cardinality(orders_sent) < MaxFills
  /\ \E f \in TestFills :
       /\ Constructed(f)
       /\ message_queue' = put(message_queue,
                               Message(BrokerFillTopic, "Test", f, npub + 1, 0, 0))
  /\ npub' = npub + 1
  /\ UNCHANGED <<dmVars, otherVars, data, subscribers, worker, pfVars, returns, published, delivered,
                 orders_sent>>

NextPortfolio ==
  \/ TestPublishOrder
  \/ TestPublishFill
  \/ WorkerGet
  \/ WorkerTaskDone
  \/ CallPortfolioOrder
  \/ CallPortfolioFill

SpecPortfolio == InitPortfolioTest /\ [][NextPortfolio]_vars

\* ------------------------------------------------------------ the margin check alone
KeyError == "KeyError"
Abs(x) == IF x < 0 THEN 0 - x ELSE x

\* Portfolio._check_margin_requirements: for every short position the last price of
\* the symbol is read without a presence test (KeyError), then equity is compared
\* with the value of the position; the loop runs to the end whatever it finds
CheckMarginRequirements(pos, lp, eq) ==
  IF \E symbol \in DOMAIN pos : pos[symbol] < 0 /\ symbol \notin DOMAIN lp
  THEN [exc |-> KeyError, value |-> FALSE]
  ELSE [exc |-> None,
        value |-> \E symbol \in DOMAIN pos :
                    pos[symbol] < 0 /\ eq < Abs(pos[symbol]) * lp[symbol].close * 1]

\* TestPortfolio.test_check_margin_requirements: the test sets _positions (and
\* _last_prices, _balance), calls _update_equity, then calls the check
TestSymbols == {<<"A">>, <<"B">>}
TestQuantities == {0 - 2, 0 - 1, 1}
TestBalances == {InitialBalance, 40000}

InitMargin ==
  /\ stream_list = <<>>
  /\ bar_index = <<>>
  /\ data_streams = <<>>
  /\ bars = <<>>
  /\ data = FnSet(EmptyFn, "available_balance", InitialBalance)
  /\ subscribers = SubscribeAll(EmptyFn, PortfolioSubscriptions(<<>>), 1)
  /\ message_queue = <<>>
  /\ worker = Idle
  /\ balance \in TestBalances
  /\ available_balance = balance
  /\ last_prices \in {[symbol \in S |-> TestLastPrices[symbol]] : S \in SUBSET TestSymbols}
  /\ positions \in UNION {[S -> TestQuantities] : S \in SUBSET TestSymbols}
  /\ equity = UpdateEquity(balance, positions, last_prices)
  /\ pending_orders = <<>>
  /\ returns = <<>>
  /\ published = <<>>
  /\ delivered = <<>>
  /\ npub = 0
  /\ constructed = <<>>
  /\ orders_sent = {}
  /\ InitOthers

\* the test calls _check_margin_requirements
TestCheckMarginRequirements ==
  /\ Len(calls) < MaxCalls
  /\ calls' = Append(calls,
                     [op |-> "check_margin_requirements",
                      fields |-> pfVars,
                      result |-> CheckMarginRequirements(positions, last_prices, equity)])
  /\ UNCHANGED <<dmVars, data, busVars, pfVars, histVars, orders_sent, maVars, ctorVars>>

\* the test calls _on_new_bar(None, bar_event): _check_margin_requirements(), then
\* _update_equity(); an exception of the first ends the call (invoked: the methods
\* that were entered, in order)
TestOnNewBar ==
  /\ Len(calls) < MaxCalls
  /\ LET r == CheckMarginRequirements(positions, last_prices, equity)
     IN /\ calls' = Append(calls,
                           [op |-> "on_new_bar", fields |-> pfVars, result |-> r,
                            invoked |-> IF r.exc = None
                                        THEN <<"_check_margin_requirements", "_update_equity">>
                                        ELSE <<"_check_margin_requirements">>])
        /\ equity' = IF r.exc = None THEN UpdateEquity(balance, positions, last_prices)
                      ELSE equity
  /\ UNCHANGED <<dmVars, data, busVars, balance, available_balance, last_prices, positions,
                 pending_orders, histVars, orders_sent, maVars, ctorVars>>

NextMargin == TestCheckMarginRequirements \/ TestOnNewBar

SpecMargin == InitMargin /\ [][NextMargin]_vars


\* ------------------------------------------------------------ the dispatcher alone
\* TestDispatcher: a fresh Dispatcher; the test subscribes callbacks and publishes
\* events while the worker runs.  The callbacks are the test's own, which records
\* the data, and the risk manager's, which raises TypeError whatever it is given.
TestTopics == {<<"test", "event">>, <<"other", "event">>}
TestCallbacks == {"TestDispatcher.callback_function", "RiskManager._on_strategy_order"}

InitBus ==
  /\ stream_list = <<>>
  /\ bar_index = <<>>
  /\ data_streams = <<>>
  /\ bars = <<>>
  /\ data = EmptyFn
  /\ subscribers = EmptyFn
  /\ message_queue = <<>>
  /\ worker = Idle
  /\ InitPortfolio
  /\ returns = <<>>
  /\ published = <<>>
  /\ delivered = <<>>
  /\ npub = 0
  /\ constructed = <<>>
  /\ orders_sent = {}
  /\ InitOthers

\* dispatcher.subscribe(event_type, callback), called by the test; the log entry notes
\* the item of the same topic the worker was delivering when the call was made (0: none)
TestSubscribe ==
  /\ Len(calls) < MaxCalls
  /\ \E event_type \in TestTopics, callback \in TestCallbacks :
       /\ subscribers' = subscribe(subscribers, event_type, callback)
       /\ calls' = Append(calls, [op |-> "subscribe", event_type |-> event_type,
                                  callback |-> callback,
                                  during |-> IF worker.pc = "call"
                                                  /\ worker.entry.event_type = event_type
                                             THEN worker.entry.seq ELSE 0])
  /\ UNCHANGED <<dmVars, data, message_queue, worker, pfVars, histVars, orders_sent, maVars,
                 ctorVars>>

\* dispatcher.publish(event_type, test_sender, test_data), called by the test: put on
\* the unbounded queue
TestPublish ==
  /\ npub < MaxEvents
  /\ \E event_type \in TestTopics :
       message_queue' = put(message_queue,
                            Message(event_type, "test_sender", "test_data", npub + 1, 0, 0))
  /\ npub' = npub + 1
  /\ UNCHANGED <<dmVars, otherVars, data, subscribers, worker, pfVars, returns, published,
                 delivered, constructed, orders_sent>>

\* TestDispatcher.callback_function: self.test_data = data
CallTestCallback ==
  /\ Calling("TestDispatcher.callback_function")
  /\ Called("TestDispatcher.callback_function", None)
  /\ UNCHANGED <<dmVars, otherVars, data, subscribers, message_queue, pfVars, returns,
                 published, npub, constructed, orders_sent>>

NextBus ==
  \/ TestSubscribe
  \/ TestPublish
  \/ WorkerGet
  \/ WorkerTaskDone
  \/ CallTestCallback
  \/ CallRiskManager

SpecBus == InitBus /\ [][NextBus]_vars

\* the worker is a thread of its own running "while True": whenever it can take a
\* step (an item is queued, a callback of the copy is left to invoke, task_done is
\* due) it eventually takes it; the callbacks return or raise.  Nothing obliges the
\* test to subscribe or to publish.
WorkerFairness ==
  /\ WF_vars(WorkerGet)
  /\ WF_vars(WorkerTaskDone)
  /\ WF_vars(CallTestCallback)
  /\ WF_vars(CallRiskManager)

SpecBusFair == SpecBus /\ WorkerFairness


\* ------------------------------------------------------------ Dispatcher() from several threads
\* Dispatcher.__new__ runs under the class lock; Dispatcher.__init__ runs without
\* it: the test of _running (a step) and the body it guards (a step) of one thread
\* interleave with those of another.  callers[t] is
\* [pc: "ready" outside a call, "init" between __new__ and the test, "body" between
\* the test and the body; done: the calls returned; npub: the number of publish
\* calls made when its current or last call started].

\* a test that lets the body of __init__ run at every construction
AnyTime(s) == TRUE

\* not hasattr(self, '_running') or not self._running
NotRunning(s) == ~s.running

InitSingleton ==
  /\ stream_list = <<>>
  /\ bar_index = <<>>
  /\ data_streams = <<>>
  /\ bars = <<>>
  /\ data = EmptyFn
  /\ subscribers = EmptyFn
  /\ message_queue = <<>>
  /\ worker = NotStarted
  /\ InitPortfolio
  /\ returns = <<>>
  /\ published = <<>>
  /\ delivered = <<>>
  /\ npub = 0
  /\ constructed = <<>>
  /\ orders_sent = {}
  /\ calls = <<>>
  /\ data_buffer = <<>>
  /\ position = 0
  /\ callers = [t \in Threads |-> [pc |-> "ready", done |-> 0, npub |-> 0]]
  /\ singleton = [instance |-> 0, running |-> FALSE]
  /\ worker2 = NotStarted

\* the calls of Dispatcher() started so far
RECURSIVE StartedBy(_)
StartedBy(T) ==
  IF T = {} THEN 0
  ELSE LET t == CHOOSE x \in T : TRUE
       IN callers[t].done + (IF callers[t].pc = "ready" THEN 0 ELSE 1) + StartedBy(T \ {t})
Started == StartedBy(Threads)

\* thread t calls Dispatcher(): __new__, under the lock, creates the object (empty
\* subscribers, a queue) if there is none
CallNew(t) ==
  /\ callers[t].pc = "ready"
  /\ Started < MaxConstructions
  /\ callers' = [callers EXCEPT ![t] = [@ EXCEPT !.pc = "init", !.npub = npub]]
  /\ singleton' = [singleton EXCEPT !.instance = IF @ = 0 THEN 1 ELSE @]
  /\ IF singleton.instance = 0
     THEN subscribers' = EmptyFn /\ message_queue' = <<>>
     ELSE UNCHANGED <<subscribers, message_queue>>
  /\ UNCHANGED <<dmVars, data, worker, pfVars, histVars, orders_sent, calls, maVars, worker2>>

\* __init__ of thread t tests _running: the call returns, or goes on to the body
CallInitTest(t) ==
  /\ callers[t].pc = "init"
  /\ callers' = [callers EXCEPT ![t] = IF NotRunning(singleton)
                                        THEN [@ EXCEPT !.pc = "body"]
                                        ELSE [@ EXCEPT !.pc = "ready", !.done = @ + 1]]
  /\ UNCHANGED <<dmVars, data, busVars, pfVars, histVars, orders_sent, calls, maVars, singleton,
                 worker2>>

\* the body of __init__: a new queue replaces message_queue, _running = True, a
\* worker thread is created and started.  A worker already blocked in get() of the
\* replaced queue stays on it ("orphan"); one that has not read self.message_queue
\* yet will read the new queue.  Two threads can be in the body, so two worker
\* threads are represented.
CallInitBody(t) ==
  /\ callers[t].pc = "body"
  /\ callers' = [callers EXCEPT ![t] = [@ EXCEPT !.pc = "ready", !.done = @ + 1]]
  /\ message_queue' = <<>>
  /\ singleton' = [singleton EXCEPT !.running = TRUE]
  /\ IF worker.pc = "new"
     THEN worker' = Idle /\ worker2' = worker2
     ELSE /\ worker2' = IF worker2.pc = "new" THEN Idle ELSE worker2
          /\ \/ worker' = worker
             \/ worker.pc = "get" /\ worker' = [worker EXCEPT !.pc = "orphan"]
  /\ UNCHANGED <<dmVars, data, subscribers, pfVars, histVars, orders_sent, calls, maVars>>

\* the second worker thread: message_queue.get() and the copy of the callbacks
Worker2Get ==
  /\ worker2.pc = "get"
  /\ message_queue # <<>>
  /\ worker2' = [pc |-> "call", entry |-> get(message_queue).item,
                 callbacks |-> snapshot(subscribers, get(message_queue).item.event_type),
                 copy |-> snapshot(subscribers, get(message_queue).item.event_type)]
  /\ message_queue' = get(message_queue).rest
  /\ UNCHANGED <<dmVars, data, subscribers, worker, pfVars, histVars, orders_sent, calls, maVars,
                 callers, singleton>>

\* the second worker thread invokes the test's callback
Worker2CallTestCallback ==
  /\ worker2.pc = "call"
  /\ worker2.callbacks # <<>>
  /\ Head(worker2.callbacks) = "TestDispatcher.callback_function"
  /\ worker2' = [worker2 EXCEPT !.callbacks = Tail(@)]
  /\ delivered' = Append(delivered, [seq |-> worker2.entry.seq,
                                     callback |-> "TestDispatcher.callback_function",
                                     exc |-> None])
  /\ UNCHANGED <<dmVars, data, busVars, pfVars, returns, published, npub, constructed,
                 orders_sent, calls, maVars, callers, singleton>>

\* the second worker thread: task_done
Worker2TaskDone ==
  /\ worker2.pc = "call"
  /\ worker2.callbacks = <<>>
  /\ worker2' = Idle
  /\ UNCHANGED <<dmVars, data, busVars, pfVars, histVars, orders_sent, calls, maVars, callers,
                 singleton>>

\* a thread that holds the instance subscribes the test's callback, once per topic
ThreadSubscribe ==
  /\ \E t \in Threads : callers[t].done >= 1
  /\ \E event_type \in TestTopics \ DOMAIN subscribers :
       /\ subscribers' = subscribe(subscribers, event_type, "TestDispatcher.callback_function")
       /\ calls' = Append(calls, [op |-> "subscribe", event_type |-> event_type,
                                  callback |-> "TestDispatcher.callback_function"])
  /\ UNCHANGED <<dmVars, data, message_queue, worker, pfVars, histVars, orders_sent, maVars,
                 ctorVars>>

\* a thread that holds the instance publishes
ThreadPublish ==
  /\ \E t \in Threads : callers[t].done >= 1
  /\ TestPublish

NextSingleton ==
  \/ \E t \in Threads : CallNew(t)
  \/ \E t \in Threads : CallInitTest(t)
  \/ \E t \in Threads : CallInitBody(t)
  \/ ThreadSubscribe
  \/ ThreadPublish
  \/ WorkerGet
  \/ CallTestCallback
  \/ WorkerTaskDone
  \/ Worker2Get
  \/ Worker2CallTestCallback
  \/ Worker2TaskDone

SpecSingleton == InitSingleton /\ [][NextSingleton]_vars


\* ------------------------------------------------------------ the shared store alone
\* SharedRepository: every method body runs under self.lock, so each call is one
\* step whichever thread makes it.  set is FnSet.
\* a delete that leaves the key in place
repo_keep(d, key) == d

\* SharedRepository.get
repo_get(d, key, default) == IF key \in DOMAIN d THEN d[key] ELSE default
\* SharedRepository.delete
repo_delete(d, key) == IF key \in DOMAIN d THEN [x \in DOMAIN d \ {key} |-> d[x]] ELSE d
\* SharedRepository.contains
repo_contains(d, key) == key \in DOMAIN d

\* TestSharedRepository: keys, values and defaults of the calls
TestKeys == {"test_key", "other_key"}
TestValues == {"test_value", "other_value"}
TestDefaults == {None, "default_value"}

\* TestSharedRepository.setUp: a fresh, empty store
InitStore ==
  /\ stream_list = <<>>
  /\ bar_index = <<>>
  /\ data_streams = <<>>
  /\ bars = <<>>
  /\ data = EmptyFn
  /\ subscribers = EmptyFn
  /\ message_queue = <<>>
  /\ worker = Idle
  /\ InitPortfolio
  /\ returns = <<>>
  /\ published = <<>>
  /\ delivered = <<>>
  /\ npub = 0
  /\ constructed = <<>>
  /\ orders_sent = {}
  /\ InitOthers

\* the frame of a call on the store
StoreCall(entry) ==
  /\ Len(calls) < MaxRepoCalls
  /\ calls' = Append(calls, entry)
  /\ UNCHANGED <<dmVars, busVars, pfVars, histVars, orders_sent, maVars, ctorVars>>

\* thread t calls repo.set(key, value)
CallSet(t) ==
  \E key \in TestKeys, value \in TestValues :
    /\ data' = FnSet(data, key, value)
    /\ StoreCall([op |-> "set", thread |-> t, key |-> key, value |-> value])

\* thread t calls repo.get(key, default)
CallGet(t) ==
  \E key \in TestKeys, default \in TestDefaults :
    /\ data' = data
    /\ StoreCall([op |-> "get", thread |-> t, key |-> key, default |-> default,
                  result |-> repo_get(data, key, default)])

\* thread t calls repo.delete(key)
CallDelete(t) ==
  \E key \in TestKeys :
    /\ data' = repo_delete(data, key)
    /\ StoreCall([op |-> "delete", thread |-> t, key |-> key])

\* thread t calls repo.contains(key)
CallContains(t) ==
  \E key \in TestKeys :
    /\ data' = data
    /\ StoreCall([op |-> "contains", thread |-> t, key |-> key,
                  result |-> repo_contains(data, key)])

NextStore ==
  \/ \E t \in Threads : CallSet(t)
  \/ \E t \in Threads : CallGet(t)
  \/ \E t \in Threads : CallDelete(t)
  \/ \E t \in Threads : CallContains(t)

SpecStore == InitStore /\ [][NextStore]_vars


\* ------------------------------------------------------------ Timeframe alone
\* a str is the sequence of its characters here: "15m" is <<"1", "5", "m">>
ValueError == "ValueError"

\* the members of the enumeration, in declaration order
Timeframe ==
  << [name |-> "MINUTE_1", value |-> <<"1", "m">>],
     [name |-> "MINUTE_5", value |-> <<"5", "m">>],
     [name |-> "MINUTE_15", value |-> <<"1", "5", "m">>],
     [name |-> "MINUTE_30", value |-> <<"3", "0", "m">>],
     [name |-> "HOUR_1", value |-> <<"1", "h">>],
     [name |-> "HOUR_4", value |-> <<"4", "h">>],
     [name |-> "DAY_1", value |-> <<"1", "d">> ] >>

\* int() of a string of decimal digits
Digits == <<"0", "1", "2", "3", "4", "5", "6", "7", "8", "9">>
RECURSIVE int(_)
int(s) ==
  LET d == (CHOOSE i \in DOMAIN Digits : Digits[i] = s[Len(s)]) - 1
  IN IF Len(s) = 1 THEN d ELSE int(SubSeq(s, 1, Len(s) - 1)) * 10 + d

\* Timeframe.__str__
str(t) == t.value

\* Timeframe.from_string: the first member whose value is the string, else ValueError
from_string(value) ==
  IF \E i \in DOMAIN Timeframe : Timeframe[i].value = value
  THEN [exc |-> None,
        value |-> Timeframe[CHOOSE i \in DOMAIN Timeframe :
                              /\ Timeframe[i].value = value
                              /\ \A j \in 1..(i - 1) : Timeframe[j].value # value]]
  ELSE [exc |-> ValueError, value |-> None]

\* a conversion that reads the number and forgets the unit
number_only(t) == [exc |-> None, value |-> int(SubSeq(t.value, 1, Len(t.value) - 1))]

\* Timeframe.to_minutes
to_minutes(t) ==
  LET unit == t.value[Len(t.value)]
      number == SubSeq(t.value, 1, Len(t.value) - 1)
  IN IF unit = "m" THEN [exc |-> None, value |-> int(number)]
     ELSE IF unit = "h" THEN [exc |-> None, value |-> int(number) * 60]
     ELSE IF unit = "d" THEN [exc |-> None, value |-> 24 * 60]
     ELSE [exc |-> ValueError, value |-> 0]

\* TestTimeframe: the strings given to from_string: every member's, and others
TestStrings ==
  {Timeframe[i].value : i \in DOMAIN Timeframe}
  \cup {<<>>, <<"m">>, <<"2", "h">>, <<"1", "M">>, <<"1", "m", "m">>, <<"6", "0", "m">>,
        <<"i", "n", "v", "a", "l", "i", "d">>}

\* the frame of a call on Timeframe
TimeframeCall(entry) ==
  /\ Len(calls) < MaxCalls
  /\ calls' = Append(calls, entry)
  /\ UNCHANGED <<dmVars, data, busVars, pfVars, histVars, orders_sent, maVars, ctorVars>>

\* Timeframe.from_string(value)
CallFromString ==
  \E value \in TestStrings :
    TimeframeCall([op |-> "from_string", arg |-> value, result |-> from_string(value)])

\* Timeframe.from_string(str(t))
CallFromStringOfStr ==
  \E i \in DOMAIN Timeframe :
    TimeframeCall([op |-> "from_string(str)", arg |-> Timeframe[i],
                   result |-> from_string(str(Timeframe[i]))])

\* t.to_minutes()
CallToMinutes ==
  \E i \in DOMAIN Timeframe :
    TimeframeCall([op |-> "to_minutes", arg |-> Timeframe[i],
                   result |-> to_minutes(Timeframe[i])])

NextTimeframe == CallFromString \/ CallFromStringOfStr \/ CallToMinutes

SpecTimeframe == InitStore /\ [][NextTimeframe]_vars


\* ------------------------------------------------------------ the moving-average strategy
\* MovingAverageStrategy.__init__ calls super().__init__() without the symbol and
\* timeframe Strategy.__init__ requires (TypeError), so the class yields no instance
\* as written.  The runs below are those of an instance whose base initialiser was
\* given the stream ("XXX", "1h"), its fields as lines 9-14 assign them; the windows
\* (50 and 200 in the code) are ShortWindow and LongWindow.
MASymbol == <<"XXX">>
MATopic == BarTopic(StreamKey(MASymbol, "1h"))
MACloses == {1, 2, 3}

\* the methods an instance has: those of MovingAverageStrategy and of Strategy
StrategyMethods == {"__init__", "on_new_bar", "_check_signals", "_on_new_bar", "_emit_order"}

\* sum of the last n elements of buf (np.mean of a slice is this sum over n)
RECURSIVE SumLast(_, _)
SumLast(buf, n) ==
  IF n = 0 \/ buf = <<>> THEN 0
  ELSE buf[Len(buf)] + SumLast(SubSeq(buf, 1, Len(buf) - 1), n - 1)

\* MovingAverageStrategy._check_signals, the averages compared without dividing:
\* [position, direction of the order returned or None]
check_signals(pos, buf) ==
  LET short == SumLast(buf, ShortWindow) * LongWindow
      long == SumLast(buf, LongWindow) * ShortWindow
  IN IF pos < 1 /\ short > long THEN [position |-> 1, direction |-> "BUY"]
     ELSE IF pos > 0 - 1 /\ short < long THEN [position |-> 0 - 1, direction |-> "SELL"]
     ELSE [position |-> pos, direction |-> None]

\* the strategy of the runs, constructed on a fresh process
InitMA ==
  /\ stream_list = <<>>
  /\ bar_index = <<>>
  /\ data_streams = <<>>
  /\ bars = <<>>
  /\ data = EmptyFn
  /\ subscribers = subscribe(EmptyFn, MATopic, "MovingAverageStrategy.on_new_bar")
  /\ message_queue = <<>>
  /\ worker = Idle
  /\ InitPortfolio
  /\ returns = <<>>
  /\ published = <<>>
  /\ delivered = <<>>
  /\ npub = 0
  /\ constructed = <<>>
  /\ orders_sent = {}
  /\ InitOthers

\* a bar of the strategy's stream is published
TestPublishBar ==
  /\ npub < MaxMABars
  /\ \E close \in MACloses :
       LET bar_event == BarEvent(Bar(npub + 1, close), MASymbol)
       IN /\ Constructed(bar_event)
          /\ message_queue' = put(message_queue,
                                  Message(MATopic, "Test", bar_event, npub + 1, 0, npub + 1))
  /\ npub' = npub + 1
  /\ UNCHANGED <<dmVars, otherVars, data, subscribers, worker, pfVars, returns, published,
                 delivered, orders_sent>>

\* a guard that lets the signals be checked on any buffer
AnyLength(buf) == TRUE

\* len(self.data_buffer) > self.long_window
PastWarmUp(buf) == Len(buf) > LongWindow

\* MovingAverageStrategy.on_new_bar: append the close; past LongWindow closes compute
\* the averages and check the signals; trim the buffer at 2 * LongWindow; then emit
\* the order with self.emit_order, a method no class defines (AttributeError)
CallMAOnNewBar ==
  /\ Calling("MovingAverageStrategy.on_new_bar")
  /\ LET buf == Append(data_buffer, worker.entry.data.bar.close)
         signal == IF PastWarmUp(buf) THEN check_signals(position, buf)
                   ELSE [position |-> position, direction |-> None]
     IN /\ data_buffer' = IF Len(buf) >= 2 * LongWindow
                          THEN SubSeq(buf, Len(buf) - LongWindow + 1, Len(buf))
                          ELSE buf
        /\ position' = signal.position
        /\ IF signal.direction = None
           THEN /\ Called("MovingAverageStrategy.on_new_bar", None)
                /\ UNCHANGED <<message_queue, npub, constructed>>
           ELSE LET order == OrderEvent(worker.entry.data.symbol, "MARKET", 1,
                                        signal.direction, NoNumber)
                IN /\ Constructed(order)
                   /\ IF "emit_order" \in StrategyMethods
                      THEN /\ Called("MovingAverageStrategy.on_new_bar", None)
                           /\ PublishFromCallback(StrategyOrderTopic, "MovingAverageStrategy",
                                                  order)
                      ELSE /\ Called("MovingAverageStrategy.on_new_bar", "AttributeError")
                           /\ UNCHANGED <<message_queue, npub>>
  /\ UNCHANGED <<dmVars, data, subscribers, pfVars, returns, published, orders_sent, calls,
                 ctorVars>>

NextMA == TestPublishBar \/ WorkerGet \/ CallMAOnNewBar \/ WorkerTaskDone

SpecMA == InitMA /\ [][NextMA]_vars


\* TestDataManager.setUp with streams whose symbols are the test's choice: a symbol
\* with an underscore ("A_X") and two streams of one symbol are among them
InitSymbols ==
  /\ stream_list \in {<<BacktestDataStream(s1, "1h", a), BacktestDataStream(s2, "1d", b)>> :
                        s1 \in {<<"A">>, <<"A", "X">>}, s2 \in {<<"A">>, <<"B">>},
                        a \in AscendingBars, b \in AscendingBars}
  /\ bar_index = [i \in 1..Len(stream_list) |-> 0]
  /\ data_streams = RegisterStreams(stream_list, 1, <<>>)
  /\ bars = <<>>
  /\ data = FnSet(EmptyFn, "data_streams", StreamTopics(stream_list))
  /\ subscribers =
       subscribe(subscribe(EmptyFn,
                           BarTopic(StreamKey(stream_list[1].symbol, stream_list[1].timeframe)),
                           "TestDataManager.on_new_bar"),
                 BarTopic(StreamKey(stream_list[2].symbol, stream_list[2].timeframe)),
                 "TestDataManager.on_new_bar")
  /\ message_queue = StreamAnnouncements(stream_list)
  /\ worker = Idle
  /\ InitPortfolio
  /\ returns = <<>>
  /\ published = <<>>
  /\ delivered = <<>>
  /\ npub = Len(stream_list)
  /\ constructed = <<>>
  /\ orders_sent = {}
  /\ InitOthers

SpecSymbols == InitSymbols /\ [][NextMerge]_vars


\* ------------------------------------------------------------ a backtest
\* the engine constructed as in Init over one stream of several bars, and run by
\* the main loop alone: the only orders are those of the strategy
InitBacktest ==
  /\ stream_list \in {<<BacktestDataStream(<<"A">>, "1h", a)>> : a \in AscendingBars}
  /\ bar_index = [i \in 1..Len(stream_list) |-> 0]
  /\ data_streams = RegisterStreams(stream_list, 1, <<>>)
  /\ bars = <<>>
  /\ data = FnSet(FnSet(EmptyFn, "data_streams", StreamTopics(stream_list)),
                  "available_balance", InitialBalance)
  /\ subscribers =
       SubscribeAll(EmptyFn,
                    PortfolioSubscriptions(StreamTopics(stream_list))
                    \o << <<StrategyOrderTopic, "RiskManager._on_strategy_order">>,
                          <<RiskManagerOrderTopic, "OrderManager._on_risk_manager_order">>,
                          <<OrderManagerOrderTopic, "BrokerInterfaceMock._on_order_manager_order">> >>
                    \o StrategySubscriptions(stream_list), 1)
  /\ message_queue = StreamAnnouncements(stream_list)
  /\ worker = Idle
  /\ InitPortfolio
  /\ returns = <<>>
  /\ published = <<>>
  /\ delivered = <<>>
  /\ npub = Len(stream_list)
  /\ constructed = <<>>
  /\ orders_sent = {}
  /\ InitOthers

NextBacktest ==
  \/ MainLoopAdvance
  \/ WorkerGet
  \/ WorkerTaskDone
  \/ CallStrategy
  \/ CallRiskManager
  \/ CallPortfolioNewDataStream

SpecBacktest == InitBacktest /\ [][NextBacktest]_vars


\* ==================================================================== claims
IsPrefix(s, t) == Len(s) <= Len(t) /\ \A i \in 1..Len(s) : s[i] = t[i]
QueuedSeqs == {message_queue[i].seq : i \in DOMAIN message_queue}
\* the bars published from one stream key, in publication order
PublishedBars(key) ==
  LET p == SelectSeq(published, LAMBDA e : e.key = key)
  IN [i \in 1..Len(p) |-> p[i].bar]

\* C1: callbacks are invoked in the order their events were enqueued: the log of
\* invocations never goes back to an event published earlier than one already
\* delivered, whoever published it (main thread or a callback), so every
\* subscriber sees events in publication order.
C1_DeliveryInPublicationOrder ==
  \A i, j \in DOMAIN delivered : i < j => delivered[i].seq <= delivered[j].seq

\* C1 witness: an order published by the main thread was delivered to both
\* subscribers of order_manager_order and the fill the broker published from its
\* callback was delivered afterwards, after a bar had been delivered too.
C1_Witness ==
  \E i, j, k, b \in DOMAIN delivered :
    /\ i < j /\ j < k
    /\ delivered[i].callback = "Portfolio._on_order_manager_order"
    /\ delivered[j].callback = "BrokerInterfaceMock._on_order_manager_order"
    /\ delivered[i].seq = delivered[j].seq
    /\ delivered[k].callback = "Portfolio._on_broker_interface_fill"
    /\ delivered[b].callback = "Strategy.on_new_bar"

\* C2: delivery is never re-entrant.  An event published while event e is being
\* delivered sits behind everything already queued (the queue is in publication
\* order and everything in it was published after e), and no callback has run for
\* it, nor for anything behind it, while e or an earlier-queued event is unfinished:
\* every invocation made so far belongs to an event published before everything
\* that is still queued, and to no event later than e.
C2_NeverReentrant ==
  /\ \A i, j \in DOMAIN message_queue :
       i < j => message_queue[i].seq < message_queue[j].seq
  /\ \A k \in DOMAIN delivered : \A s \in QueuedSeqs : delivered[k].seq < s
  /\ worker.pc = "call" =>
       /\ \A s \in QueuedSeqs : worker.entry.seq < s
       /\ \A k \in DOMAIN delivered : delivered[k].seq <= worker.entry.seq

\* C2 witness: while the worker is still inside the delivery of e, the queue holds
\* an event that a callback of e published, behind an entry that was queued before.
C2_Witness ==
  /\ worker.pc = "call"
  /\ \E i, j \in DOMAIN message_queue :
       /\ i < j
       /\ message_queue[j].parent = worker.entry.seq
       /\ message_queue[i].parent # worker.entry.seq

\* C3: once a bar event is dequeued, every event published (transitively) by the
\* callbacks handling it is delivered before the next bar event is dequeued: while
\* the worker delivers a bar event, nothing caused by an earlier bar is still queued.
C3_BarChainBeforeNextBar ==
  (worker.pc = "call" /\ worker.entry.sender = "DataManager") =>
    \A i \in DOMAIN message_queue :
      message_queue[i].cause = 0 \/ message_queue[i].cause >= worker.entry.seq

\* C4: the timestamps of the bars published by successive get_next_bars calls are
\* non-decreasing, given streams whose own bars are in non-decreasing order.
C4_PublishedNonDecreasing ==
  \A i, j \in DOMAIN published :
    i < j => published[i].bar.timestamp <= published[j].bar.timestamp

\* C4 witness: three bars with increasing timestamps were published, the middle one
\* from the other stream.
C4_Witness ==
  /\ Len(published) >= 3
  /\ published[1].key = published[3].key
  /\ published[1].key # published[2].key
  /\ published[1].bar.timestamp < published[2].bar.timestamp
  /\ published[2].bar.timestamp < published[3].bar.timestamp

\* C5: when several occupied slots hold the smallest timestamp, the published bar
\* is the one of the stream registered earliest with the DataManager, on every
\* call, including the calls that follow a slot refill.
C5_TieToEarliestRegistered ==
  \A i \in DOMAIN published : published[i].key = published[i].tied[1]

C7_BalanceNeverNegative == balance >= 0

\* C8: a fill that drives the balance negative is fatal: its invocation is the last
\* one of the run, and the worker never moves on to a later event.
C8_NegativeBalanceIsFatal ==
  \A i \in DOMAIN delivered :
    delivered[i].exc = "AssertionError" =>
      /\ i = Len(delivered)
      /\ worker.pc = "call" => worker.entry.seq = delivered[i].seq

\* the cash one pending order reserves: quantity x its limit price, or x the last
\* known close of its symbol for a MARKET order (nothing when there is none)
Reserved(order) ==
  IF order.order_type = "MARKET"
  THEN IF order.symbol \in DOMAIN last_prices
       THEN order.quantity * last_prices[order.symbol].close ELSE 0
  ELSE order.quantity * order.price[1]

RECURSIVE TotalReserved(_)
TotalReserved(i) == IF i = 0 THEN 0 ELSE Reserved(pending_orders[i]) + TotalReserved(i - 1)

\* C9: in every reachable state available_balance is the balance minus the cash
\* reserved by the pending orders, and the shared-store key "available_balance"
\* holds the same value.
C9_AvailableBalanceConsistent ==
  /\ available_balance = balance - TotalReserved(Len(pending_orders))
  /\ data["available_balance"] = available_balance

\* C10: handling a fill removes from the pending orders exactly the one order whose
\* id is the fill's order_ref; every other pending order stays, in its order.
C10_FillRemovesExactlyOne ==
  [][(/\ Calling("Portfolio._on_broker_interface_fill")
      /\ delivered' # delivered
      /\ \E k \in DOMAIN pending_orders : pending_orders[k].id = worker.entry.data.order_ref)
     => \E k \in DOMAIN pending_orders :
          /\ pending_orders[k].id = worker.entry.data.order_ref
          /\ pending_orders' = SubSeq(pending_orders, 1, k - 1)
                               \o SubSeq(pending_orders, k + 1, Len(pending_orders))]_vars

\* C11: every constructed event carries an id greater than (so distinct from) the
\* id of every event constructed before it, and an order_ref names at most one
\* constructed order.
C11_EventIdsUniqueIncreasing ==
  /\ \A i, j \in DOMAIN constructed : i < j => constructed[i].id < constructed[j].id
  /\ \A k \in DOMAIN constructed :
       constructed[k].type = "FILL" =>
         Cardinality({i \in DOMAIN constructed :
                        /\ constructed[i].type = "ORDER"
                        /\ <<constructed[i].id>> = constructed[k].order_ref}) <= 1

\* the worker's current callback is cb and this step is its invocation
Invokes(cb) == Calling(cb) /\ delivered' # delivered
\* this step publishes exactly one item, the last of the queue afterwards
PublishesOne ==
  /\ Len(message_queue') = Len(message_queue) + 1
  /\ SubSeq(message_queue', 1, Len(message_queue)) = message_queue
LastPublished == message_queue'[Len(message_queue')]
SameOrder(a, b) ==
  /\ a.symbol = b.symbol /\ a.order_type = b.order_type /\ a.quantity = b.quantity
  /\ a.direction = b.direction /\ a.price = b.price

\* C12: the risk manager's callback republishes the strategy order it is given
\* exactly once, on risk_manager_order, with symbol, order type, quantity, side and
\* price unchanged.
C12_RiskManagerRepublishes ==
  [][Invokes("RiskManager._on_strategy_order") =>
       /\ PublishesOne
       /\ LastPublished.event_type = RiskManagerOrderTopic
       /\ SameOrder(LastPublished.data, worker.entry.data)]_vars

\* C13: the order manager's callback republishes the order it is given exactly
\* once, on order_manager_order, with symbol, order type, quantity, side and price
\* unchanged.
C13_OrderManagerRepublishes ==
  [][Invokes("OrderManager._on_risk_manager_order") =>
       /\ PublishesOne
       /\ LastPublished.event_type = OrderManagerOrderTopic
       /\ SameOrder(LastPublished.data, worker.entry.data)]_vars

\* C13 witness: the order manager has just handled a risk_manager_order and the
\* order it republished is queued.
C13_Witness ==
  /\ worker.pc = "call"
  /\ worker.entry.event_type = RiskManagerOrderTopic
  /\ \E k \in DOMAIN delivered :
       /\ delivered[k].seq = worker.entry.seq
       /\ delivered[k].callback = "OrderManager._on_risk_manager_order"
  /\ \E i \in DOMAIN message_queue :
       /\ message_queue[i].event_type = OrderManagerOrderTopic
       /\ message_queue[i].parent = worker.entry.seq
       /\ SameOrder(message_queue[i].data, worker.entry.data)

\* the shared store has a last price for symbol
HasLastPrice(symbol) ==
  "last_prices" \in DOMAIN data /\ symbol \in DOMAIN data["last_prices"]

\* C14: for an order o delivered on order_manager_order (a MARKET order whose
\* symbol has no last price aside) the broker publishes exactly one FillEvent on
\* broker_interface_fill, with o's symbol, quantity and side, commission 0,
\* order_ref = o.id, and fill_price = o.price for a non-MARKET order, the close of
\* the shared last_prices[o.symbol] for a MARKET order.
C14_BrokerFillsAtRefPrice ==
  [][(/\ Invokes("BrokerInterfaceMock._on_order_manager_order")
      /\ worker.entry.data.order_type = "MARKET" => HasLastPrice(worker.entry.data.symbol))
     => /\ PublishesOne
        /\ LastPublished.event_type = BrokerFillTopic
        /\ LET o == worker.entry.data
               f == LastPublished.data
           IN /\ f.type = "FILL"
              /\ f.symbol = o.symbol /\ f.quantity = o.quantity /\ f.direction = o.direction
              /\ f.commission = 0
              /\ f.order_ref = o.id
              /\ f.fill_price = IF o.order_type = "MARKET"
                                THEN <<data["last_prices"][o.symbol].close>>
                                ELSE o.price]_vars

\* C15: when a MARKET order reaches the broker and the shared last_prices has no
\* entry for its symbol, the broker publishes no FillEvent for it (so the portfolio
\* is never asked to apply one: balance and positions stay, the order stays pending).
C15_NoFillWithoutLastPrice ==
  [][(/\ Invokes("BrokerInterfaceMock._on_order_manager_order")
      /\ worker.entry.data.order_type = "MARKET"
      /\ ~HasLastPrice(worker.entry.data.symbol))
     => message_queue' = message_queue]_vars

\* fill_event is the fill the broker made for order: it refers to the order's id
\* and copies its symbol, quantity and side (the orders of a run differ in these)
FillOf(fill_event, order) ==
  /\ fill_event.order_ref = order.id
  /\ fill_event.symbol = order.symbol
  /\ fill_event.quantity = order.quantity
  /\ fill_event.direction = order.direction

\* C16: pending -> filled -> terminal.  When the portfolio handles a fill, the
\* order it was made for is pending (it was appended before, and has not left
\* pending_orders earlier), and the step removes that order and no other: an order
\* leaves pending_orders only through its own fill.
C16_PendingFilledTerminal ==
  [][Invokes("Portfolio._on_broker_interface_fill") =>
       LET f == worker.entry.data
           stays(k) == \E j \in DOMAIN pending_orders' : pending_orders'[j] = pending_orders[k]
       IN /\ \E k \in DOMAIN pending_orders : FillOf(f, pending_orders[k])
          /\ \A k \in DOMAIN pending_orders : FillOf(f, pending_orders[k]) <=> ~stays(k)]_vars

\* the close of the most recent bar published for symbol (0 when none was published)
LastPublishedClose(symbol) ==
  LET p == SelectSeq(published, LAMBDA e : <<Head(e.key)>> = symbol)
  IN IF p = <<>> THEN 0 ELSE p[Len(p)].bar.close

RECURSIVE PositionsValue(_, _)
PositionsValue(pos, S) ==
  IF S = {} THEN 0
  ELSE LET x == CHOOSE y \in S : TRUE
       IN pos[x] * LastPublishedClose(x) + PositionsValue(pos, S \ {x})

\* C17: after the portfolio has handled a fill (to the end, without raising),
\* equity is the balance plus, for every symbol held, the position times the close
\* of the most recent bar published for that symbol.
C17_EquityMarksToLastBar ==
  [][(/\ Invokes("Portfolio._on_broker_interface_fill")
      /\ delivered'[Len(delivered')].exc = None)
     => equity' = balance' + PositionsValue(positions', DOMAIN positions')]_vars

\* the quantity held for symbol (0 when there is no entry)
Held(pos, symbol) == IF symbol \in DOMAIN pos THEN pos[symbol] ELSE 0
Signed(fill_event) ==
  IF fill_event.direction = "BUY" THEN fill_event.quantity ELSE 0 - fill_event.quantity

\* C18: handling a fill changes positions[f.symbol] by +f.quantity for a BUY and by
\* -f.quantity for a SELL, and no other symbol's position; a SELL for a symbol
\* without position creates a negative entry.
C18_PositionChangesBySignedQuantity ==
  [][Invokes("Portfolio._on_broker_interface_fill") =>
       LET f == worker.entry.data
       IN /\ DOMAIN positions' = DOMAIN positions \cup {f.symbol}
          /\ positions'[f.symbol] = Held(positions, f.symbol) + Signed(f)
          /\ \A x \in DOMAIN positions \ {f.symbol} : positions'[x] = positions[x]]_vars

\* C18 witness: a SELL for a symbol without position has been handled while
\* another symbol was held: a short entry next to an untouched long one.
C18_Witness ==
  /\ worker.pc = "call" /\ worker.callbacks = <<>>
  /\ worker.entry.event_type = BrokerFillTopic
  /\ worker.entry.data.direction = "SELL"
  /\ worker.entry.data.symbol \in DOMAIN positions
  /\ positions[worker.entry.data.symbol] = 0 - worker.entry.data.quantity
  /\ \E x \in DOMAIN positions : x # worker.entry.data.symbol /\ positions[x] > 0

\* C19: handling a fill f (with a price) changes the balance by exactly
\* -f.quantity x f.fill_price - f.commission for a BUY and by
\* +f.quantity x f.fill_price - f.commission for a SELL.
C19_BalanceChangesByFillValue ==
  [][Invokes("Portfolio._on_broker_interface_fill") =>
       LET f == worker.entry.data
       IN balance' = balance + (IF f.direction = "SELL" THEN 1 ELSE -1)
                                 * f.quantity * f.fill_price[1] - f.commission]_vars

\* C19 witness: a SELL with a commission and a BUY without one have been handled.
C19_Witness ==
  /\ Len(delivered) = 2
  /\ \A k \in DOMAIN delivered : delivered[k].callback = "Portfolio._on_broker_interface_fill"
  /\ balance = InitialBalance - 5
  /\ \E x \in DOMAIN positions : positions[x] < 0

\* C20: a fill whose order_ref matches no pending order leaves pending_orders
\* unchanged and its position and balance updates are applied all the same.
C20_OrphanFillStillApplied ==
  [][(/\ Invokes("Portfolio._on_broker_interface_fill")
      /\ \A k \in DOMAIN pending_orders : pending_orders[k].id # worker.entry.data.order_ref)
     => LET f == worker.entry.data
        IN /\ pending_orders' = pending_orders
           /\ positions'[f.symbol] = Held(positions, f.symbol) + Signed(f)
           /\ balance' = balance + Signed(f) * (0 - f.fill_price[1]) - f.commission]_vars

\* C20 witness: a fill has been handled while orders were pending, none of which
\* has ever been removed, and it moved the balance and the positions.
C20_Witness ==
  /\ worker.pc = "call" /\ worker.callbacks = <<>>
  /\ worker.entry.event_type = BrokerFillTopic
  /\ pending_orders # <<>>
  /\ Len(pending_orders) =
       Cardinality({k \in DOMAIN delivered :
                      delivered[k].callback = "Portfolio._on_order_manager_order"})
  /\ \A k \in DOMAIN pending_orders : pending_orders[k].id # worker.entry.data.order_ref
  /\ balance # InitialBalance
  /\ worker.entry.data.symbol \in DOMAIN positions

\* the shorts of the portfolio whose value exceeds equity (a symbol without last
\* price has no value to compare)
MarginCalled ==
  \E symbol \in DOMAIN positions \cap DOMAIN last_prices :
    positions[symbol] < 0 /\ equity < Abs(positions[symbol]) * last_prices[symbol].close

\* C21: every call of check_margin_requirements returns true exactly when some
\* symbol s has positions[s] < 0 and equity < |positions[s]| * last_prices[s].close,
\* false otherwise, and leaves every portfolio field as it was.
C21_MarginCheckReturns ==
  \A i \in DOMAIN calls :
    calls[i].op = "check_margin_requirements" =>
      /\ calls[i].result.exc = None
      /\ calls[i].result.value = MarginCalled
      /\ calls[i].fields = pfVars

\* the callbacks of a list, as a set
Range(s) == {s[i] : i \in DOMAIN s}

\* C22: every BarEvent the DataManager publishes for a constructed stream is
\* delivered to the Portfolio's bar handler: when the worker dequeues a bar event,
\* Portfolio._on_new_bar is among the callbacks it copied for the event's topic.
C22_BarsReachPortfolio ==
  (worker.pc = "call" /\ worker.entry.sender = "DataManager")
    => "Portfolio._on_new_bar" \in Range(worker.copy)

\* this step is an invocation that raised
Raises ==
  /\ Len(delivered') = Len(delivered) + 1
  /\ delivered'[Len(delivered')].exc # None

\* C23: a callback that raises while an event is delivered does not stop the
\* worker: the worker stays in the delivery of the same event with the callbacks
\* registered after the raising one still to invoke, and nothing queued is lost.
C23_RaisingCallbackIsolated ==
  [][Raises =>
       /\ worker'.pc = "call"
       /\ worker'.entry = worker.entry
       /\ worker'.callbacks = Tail(worker.callbacks)
       /\ IsPrefix(message_queue, message_queue')]_vars

\* a callback raised, a callback registered after it was invoked for the same
\* event, and a later event was delivered
C23_Witness ==
  \E i \in DOMAIN delivered :
    /\ delivered[i].exc # None
    /\ \E j \in DOMAIN delivered : j > i /\ delivered[j].seq = delivered[i].seq
    /\ \E k \in DOMAIN delivered : k > i /\ delivered[k].seq > delivered[i].seq

\* the callbacks subscribed to event_type so far, in the order of the subscribe calls
Registered(event_type) ==
  LET s == SelectSeq(calls, LAMBDA c : c.op = "subscribe" /\ c.event_type = event_type)
  IN [i \in 1..Len(s) |-> s[i].callback]

\* this step is the worker's dequeue of an item
Dequeues == worker.pc = "get" /\ worker'.pc = "call"

\* C24: an event published on a topic with no subscribers is dropped: the worker
\* has no callback to invoke for it, its next step is task_done, which invokes
\* nothing and leaves it ready for the next item; and publish is never blocked,
\* whatever the queue length.
C24_UnknownTopicDropped ==
  [][/\ (Dequeues /\ Registered(worker'.entry.event_type) = <<>>)
          => worker'.callbacks = <<>>
     /\ (worker.pc = "call" /\ worker.callbacks = <<>> /\ worker' # worker)
          => (worker' = Idle /\ delivered' = delivered)
     /\ (npub < MaxEvents) => ENABLED TestPublish]_vars

\* an event was dropped (dequeued, no callback invoked) and a later one delivered
C24_Witness ==
  \E i \in DOMAIN delivered :
    \E seq \in 1..(delivered[i].seq - 1) :
      \A j \in DOMAIN delivered : delivered[j].seq # seq

\* the callbacks invoked so far for the item published as seq, in order
DeliveredTo(log, seq) ==
  LET s == SelectSeq(log, LAMBDA d : d.seq = seq)
  IN [i \in 1..Len(s) |-> s[i].callback]

\* C25: for one published event a callback is invoked once per registration it has
\* on the event's topic when the event is dequeued, never more: the list the worker
\* copies is the list of the subscribe calls made so far for the topic, duplicates
\* included, every invocation is for the item being delivered, and the invocations
\* made for it followed by those still to make are that list.
C25_OncePerRegistration ==
  [][/\ Dequeues => worker'.copy = Registered(worker'.entry.event_type)
     /\ (delivered' # delivered)
          => /\ worker.pc = "call"
             /\ delivered' = Append(delivered, delivered'[Len(delivered')])
             /\ delivered'[Len(delivered')].seq = worker.entry.seq
     /\ (worker'.pc = "call")
          => DeliveredTo(delivered', worker'.entry.seq) \o worker'.callbacks = worker'.copy]_vars

\* a callback subscribed twice to a topic was invoked twice for one event
C25_Witness ==
  \E i, j \in DOMAIN delivered :
    /\ i < j
    /\ delivered[i].seq = delivered[j].seq
    /\ delivered[i].callback = delivered[j].callback

\* this step belongs to a call of Dispatcher() by thread t
Constructs(t) == callers'[t] # callers[t]

\* C26: constructing Dispatcher repeatedly returns the same instance with the same
\* subscriber map: at most one object is ever created, no step of a construction
\* changes the subscriptions, and no step of a construction removes from the queue
\* an event that was queued before that construction was called.
C26_SingletonKeepsState ==
  [][\A t \in Threads :
       Constructs(t) =>
         /\ singleton'.instance = 1
         /\ singleton.instance = 1 => subscribers' = subscribers
         /\ \A i \in DOMAIN message_queue :
              message_queue[i].seq <= callers[t].npub
                => \E j \in DOMAIN message_queue' : message_queue'[j] = message_queue[i]]_vars

\* a construction called after a subscription was made and an event was queued has
\* returned, and the subscription and the event are still there
C26_Witness ==
  \E t \in Threads :
    /\ callers[t].pc = "ready"
    /\ callers[t].done >= 2
    /\ subscribers # EmptyFn
    /\ \E i \in DOMAIN message_queue : message_queue[i].seq <= callers[t].npub

\* worker thread w is in the loop over the callbacks of an item
Delivering(w) == w.pc = "call" /\ w.callbacks # <<>>

\* C27: the bus has exactly one worker, however many times and from however many
\* threads Dispatcher() is constructed: a second worker thread is never started, and
\* never are two threads in the delivery of an item at once.
C27_ExactlyOneWorker ==
  /\ worker2.pc = "new"
  /\ ~(Delivering(worker) /\ Delivering(worker2))

\* the set and delete calls made on key so far, in order
Writes(key) == SelectSeq(calls, LAMBDA c : c.op \in {"set", "delete"} /\ c.key = key)
\* key was set and not deleted since
Stored(key) == Writes(key) # <<>> /\ Writes(key)[Len(Writes(key))].op = "set"
LatestSet(key) == Writes(key)[Len(Writes(key))].value

\* C28: whichever threads make the calls, each call on the shared store takes
\* effect in one step, in the order of the call log: get(k, d) returns the value of
\* the latest set(k, .) not followed by delete(k) and d otherwise, contains(k) is
\* true in exactly the first case, and delete of an absent key changes nothing.
C28_StoreSequential ==
  [][calls' # calls =>
       LET c == calls'[Len(calls')] IN
         /\ c.op = "get" =>
              c.result = IF Stored(c.key) THEN LatestSet(c.key) ELSE c.default
         /\ c.op = "contains" => c.result = Stored(c.key)
         /\ (c.op = "delete" /\ ~Stored(c.key)) => data' = data
         /\ (c.op = "delete" /\ Stored(c.key))
              => data' = [x \in DOMAIN data \ {c.key} |-> data[x]]
         /\ c.op = "set" => (data'[c.key] = c.value
                             /\ \A x \in DOMAIN data \ {c.key} : data'[x] = data[x])]_vars

\* one thread set a key, another thread deleted it, and a get of the key returned
\* the default
C28_Witness ==
  \E i, j, k \in DOMAIN calls :
    /\ i < j /\ j < k
    /\ calls[i].op = "set" /\ calls[j].op = "delete" /\ calls[k].op = "get"
    /\ calls[i].key = calls[j].key /\ calls[j].key = calls[k].key
    /\ calls[i].thread # calls[j].thread
    /\ calls[k].result = calls[k].default

\* the minutes of the seven timeframes
MinutesOf(name) ==
  CASE name = "MINUTE_1" -> 1
    [] name = "MINUTE_5" -> 5
    [] name = "MINUTE_15" -> 15
    [] name = "MINUTE_30" -> 30
    [] name = "HOUR_1" -> 60
    [] name = "HOUR_4" -> 240
    [] name = "DAY_1" -> 1440
SevenStrings ==
  {<<"1", "m">>, <<"5", "m">>, <<"1", "5", "m">>, <<"3", "0", "m">>, <<"1", "h">>,
   <<"4", "h">>, <<"1", "d">>}

\* C29: for every Timeframe t, from_string(str(t)) is t; to_minutes returns 1, 5,
\* 15, 30, 60, 240, 1440 for 1m, 5m, 15m, 30m, 1h, 4h, 1d; from_string of any other
\* string raises ValueError.
C29_TimeframeRoundTrip ==
  \A i \in DOMAIN calls :
    LET c == calls[i] IN
      /\ c.op = "from_string(str)" => (c.result.exc = None /\ c.result.value = c.arg)
      /\ c.op = "to_minutes" => (c.result.exc = None /\ c.result.value = MinutesOf(c.arg.name))
      /\ (c.op = "from_string" /\ c.arg \notin SevenStrings) => c.result.exc = ValueError
      /\ (c.op = "from_string" /\ c.arg \in SevenStrings)
           => (c.result.exc = None /\ c.result.value.value = c.arg)

\* the round trip of 4h was made and to_minutes of it returned 240
C29_Witness ==
  /\ \E i \in DOMAIN calls :
       /\ calls[i].op = "from_string(str)"
       /\ calls[i].arg.name = "HOUR_4"
       /\ calls[i].result.value.name = "HOUR_4"
  /\ \E i \in DOMAIN calls :
       /\ calls[i].op = "to_minutes"
       /\ calls[i].arg.name = "HOUR_4"
       /\ calls[i].result.value = 240

\* C30: the moving-average strategy emits exactly one order per crossing: each
\* handling of a bar that moves its position to 1 publishes one MARKET BUY of
\* quantity 1 on strategy_order, each handling that moves it to -1 one MARKET SELL
\* of quantity 1, and a handling that leaves the position publishes nothing, so the
\* orders published alternate between BUY and SELL.
C30_OneOrderPerCrossing ==
  [][Invokes("MovingAverageStrategy.on_new_bar") =>
       IF position' = position
       THEN message_queue' = message_queue
       ELSE /\ PublishesOne
            /\ LastPublished.event_type = StrategyOrderTopic
            /\ LastPublished.data.order_type = "MARKET"
            /\ LastPublished.data.quantity = 1
            /\ LastPublished.data.direction = (IF position' = 1 THEN "BUY" ELSE "SELL")]_vars

\* C31: the moving-average strategy produces no order while its buffer holds at
\* most LongWindow closes: handling a bar that brings the buffer to LongWindow
\* closes or fewer constructs no order, publishes nothing and leaves the position,
\* whatever the closes.
C31_WarmUpEmitsNothing ==
  [][(Invokes("MovingAverageStrategy.on_new_bar") /\ Len(data_buffer) < LongWindow) =>
       /\ constructed' = constructed
       /\ message_queue' = message_queue
       /\ position' = position
       /\ delivered'[Len(delivered')].exc = None]_vars

\* the strategy has handled LongWindow bars, of different closes
C31_Witness ==
  /\ Len(delivered) = LongWindow
  /\ Len(data_buffer) = LongWindow
  /\ \E i, j \in DOMAIN data_buffer : data_buffer[i] < data_buffer[j]


\* the registered stream whose slot key is key (0 when there is none)
StreamOfKey(key) ==
  IF \E i \in DOMAIN stream_list :
       StreamKey(stream_list[i].symbol, stream_list[i].timeframe) = key
  THEN CHOOSE i \in DOMAIN stream_list :
         StreamKey(stream_list[i].symbol, stream_list[i].timeframe) = key
  ELSE 0
\* this step is a get_next_bars call that returns true
AdvancesTrue == Len(returns') = Len(returns) + 1 /\ returns'[Len(returns')]

\* C32: a get_next_bars call that returns true does exactly this: it pulls one bar
\* from each stream whose slot is empty and from no other stream, it sets
\* last_prices[symbol] of the shared store to the selected bar, symbol being
\* exactly the symbol of the selected stream, it publishes one BarEvent carrying
\* that bar and that symbol on new_bar_{symbol}_{timeframe}, and it empties the
\* selected slot only, every other occupied slot keeping its bar.
C32_AdvanceFrame ==
  [][AdvancesTrue =>
       LET sel == published'[Len(published')]
           s == StreamOfKey(sel.key)
       IN /\ \A i \in DOMAIN stream_list :
               bar_index'[i] # bar_index[i] =>
                 /\ bar_index'[i] = bar_index[i] + 1
                 /\ ~DictHas(bars, StreamKey(stream_list[i].symbol, stream_list[i].timeframe))
          /\ s # 0
          /\ stream_list[s].symbol \in DOMAIN data'["last_prices"]
          /\ data'["last_prices"][stream_list[s].symbol] = sel.bar
          /\ \A x \in DOMAIN SharedLastPrices :
               x # stream_list[s].symbol => data'["last_prices"][x] = SharedLastPrices[x]
          /\ PublishesOne
          /\ LastPublished.event_type = BarTopic(sel.key)
          /\ LastPublished.data.bar = sel.bar
          /\ LastPublished.data.symbol = stream_list[s].symbol
          /\ ~DictHas(bars', sel.key)
          /\ \A k \in DictKeys(bars) \ {sel.key} :
               DictHas(bars', k) /\ DictGet(bars', k) = DictGet(bars, k)]_vars


\* C39: every stream of the list passed to DataManager is replayed: with two
\* streams of one symbol and different timeframes registered, once get_next_bars
\* has returned false the bars of both streams have been published, each stream's
\* on its own new_bar topic.
C39_SameSymbolBothReplayed ==
  (/\ stream_list[1].symbol = stream_list[2].symbol
   /\ stream_list[1].timeframe # stream_list[2].timeframe
   /\ \E i \in DOMAIN returns : ~returns[i]) =>
    \A j \in DOMAIN stream_list :
      PublishedBars(StreamKey(stream_list[j].symbol, stream_list[j].timeframe))
        = stream_list[j].bars


C34_MarginThenEquity ==
  \A i \in DOMAIN calls :
    calls[i].op = "on_new_bar" =>
      /\ calls[i].invoked = <<"_check_margin_requirements", "_update_equity">>
      /\ calls[i].result.exc = None
      /\ calls[i].result.value =
           (\E symbol \in DOMAIN calls[i].fields[5] \cap DOMAIN calls[i].fields[4] :
              /\ calls[i].fields[5][symbol] < 0
              /\ calls[i].fields[3] <
                   Abs(calls[i].fields[5][symbol]) * calls[i].fields[4][symbol].close)
      /\ equity = UpdateEquity(balance, positions, last_prices)


C36_FillAllOrNothing ==
  [][Invokes("Portfolio._on_broker_interface_fill") =>
       LET f == worker.entry.data
       IN \/ pfVars' = pfVars
          \/ /\ f.fill_price # NoNumber
             /\ pending_orders' = RemoveFilled(pending_orders, f.order_ref)
             /\ positions' = UpdatePositions(positions, f)
             /\ balance' = UpdateBalance(balance, f)
             /\ available_balance' =
                  UpdateAvailableBalance(pending_orders', balance', last_prices').value
             /\ equity' = UpdateEquity(balance', positions', last_prices')]_vars


\* C38: whatever the interleaving of the streams' construction, the Portfolio's
\* construction and the worker's delivery of the new_data_stream announcements,
\* the portfolio's bar handler is registered at most once on every topic, so no
\* bar is handled twice by the portfolio.
C38_BarHandlerRegisteredOnce ==
  \A topic \in DOMAIN subscribers :
    Cardinality({i \in DOMAIN subscribers[topic] :
                   subscribers[topic][i] = "Portfolio._on_new_bar"}) <= 1


\* item seq was taken from the queue and task_done was called for it
Done(seq) ==
  /\ seq <= npub
  /\ seq \notin QueuedSeqs
  /\ ~(worker.pc = "call" /\ worker.entry.seq = seq)

\* C40: every item put on the queue is eventually dequeued and marked done, once:
\* a dequeue takes the head of the queue and removes it, and the worker leaves an
\* item by one task_done, after the last callback of its copy, whether the item
\* was delivered, had no subscriber, or a callback raised; hence once the
\* publishers stop the queue becomes empty and, with the worker waiting on it,
\* stays empty.
C40_EveryItemDone ==
  /\ \A seq \in 1..MaxEvents : (seq \in QueuedSeqs) ~> Done(seq)
  /\ <>[](message_queue = <<>> /\ worker = Idle)
  /\ [][Dequeues => /\ worker'.entry = Head(message_queue)
                    /\ message_queue' = Tail(message_queue)
                    /\ worker'.entry.seq \notin QueuedSeqs']_vars
  /\ [][(worker.pc = "call" /\ worker'.pc # "call") =>
          /\ worker.callbacks = <<>>
          /\ worker' = Idle
          /\ message_queue' = message_queue]_vars

\* C40 witness: two items were published; the first had no subscriber, a callback
\* raised for the second; both are done and the queue is empty.
C40_Witness ==
  /\ npub = 2
  /\ Done(1) /\ Done(2)
  /\ message_queue = <<>>
  /\ DeliveredTo(delivered, 1) = <<>>
  /\ \E i \in DOMAIN delivered : delivered[i].seq = 2 /\ delivered[i].exc # None


\* the number of invocations of callback cb so far
Invocations(cb) == Len(SelectSeq(delivered, LAMBDA d : d.callback = cb))

====
